---- MODULE Spec2Model ----
(***************************************************************************)
(* The blockchain dashboard: the Data Reader (pages/api/blockchain-data,   *)
(* src/unnamed/part_000), the Data Refresher (src/pages/api/update-data.js)*)
(* the metric computation of src/components/BlockchainCard.js and the      *)
(* Dashboard page (src/unnamed/part_001).                                  *)
(*                                                                         *)
(* Every `await` of a handler is one step: JavaScript runs the code        *)
(* between two awaits without interruption, and other invocations (other   *)
(* serverless instances sharing the KV store) interleave only at awaits.   *)
(* A step named after an await (GetData, TvlDone, Delay1, SetData, ...) is *)
(* the moment the awaited operation takes effect, followed by the          *)
(* synchronous code that runs until the next await is issued.              *)
(***************************************************************************)
EXTENDS Integers, Sequences, FiniteSets, TLC

\* ------------------------------------------------------------------ bounds
NumProcs == 2          \* invocation slots that may run concurrently
NumChains == 1         \* BLOCKCHAIN_MAPPING entries iterated under Spec
MaxInvocations == 2    \* invocations started in one behaviour
MaxFailures == 1       \* upstream fetches that fail in one behaviour of Spec
MaxFailuresNine == 2   \* upstream fetches that fail in one behaviour of SpecNine
MaxHours == 1          \* Tick is enabled while now < MaxHours * HOUR_MS
MaxSeriesLen == 33     \* longest series handed to BlockchainCard under SpecCard
MaxPolls == 4          \* fetchData calls of the Dashboard in one behaviour
MaxPageHours == 2      \* PageTick is enabled while now < MaxPageHours * INTERVAL_MS

\* ------------------------------------------------------ program constants
HOUR_MS == 3600000     \* the freshness window of the Reader
DELAY_MS == 1000       \* setTimeout(resolve, 1000)
SEC_MS == 1000         \* item.date * 1000
LOOKBACK_LEN == 30     \* formattedTvlData.length > 30
LOOKBACK_BACK == 31    \* formattedTvlData.length - 31
INTERVAL_MS == 3600000 \* setInterval(fetchData, 3600000)
PERCENT == 100         \* ((currentTvl - monthAgoTvl) / monthAgoTvl) * 100

\* BLOCKCHAIN_MAPPING in declaration order (Object.entries order).
BLOCKCHAIN_MAPPING ==
  << [name |-> "Aptos",     defillama |-> "aptos",     coingecko |-> "aptos"],
     [name |-> "Avalanche", defillama |-> "Avalanche", coingecko |-> "avalanche-2"],
     [name |-> "Core DAO",  defillama |-> "core",      coingecko |-> "coredaoorg"],
     [name |-> "Flow",      defillama |-> "flow",      coingecko |-> "flow"],
     [name |-> "Injective", defillama |-> "injective", coingecko |-> "injective-protocol"],
     [name |-> "Optimism",  defillama |-> "optimism",  coingecko |-> "optimism"],
     [name |-> "Polygon",   defillama |-> "polygon",   coingecko |-> "matic-network"],
     [name |-> "XRP/XRPL",  defillama |-> "XRPL",      coingecko |-> "ripple"],
     [name |-> "Sei",       defillama |-> "sei",       coingecko |-> "sei-network"] >>

ChainNames == { BLOCKCHAIN_MAPPING[i].name : i \in 1..Len(BLOCKCHAIN_MAPPING) }

Procs == 1..NumProcs

\* A JavaScript value that may be null/undefined: <<>> is null, <<v>> is v.
None == <<>>
Some(v) == <<v>>
Truthy(x) == x # None

\* The slip of keeping only the series that have points: a chain without
\* data gets no key.
SetKey_SkipEmpty(obj, key, value) ==
  IF value = <<>> THEN obj
  ELSE [k \in (DOMAIN obj) \cup {key} |-> IF k = key THEN value ELSE obj[k]]

\* An object with no keys ({}), and obj[key] = value.
EmptyObj == [k \in {} |-> <<>>]
SetKey(obj, key, value) ==
  [k \in (DOMAIN obj) \cup {key} |-> IF k = key THEN value ELSE obj[k]]

Max(a, b) == IF a >= b THEN a ELSE b

\* Date.prototype.toISOString and new Date(isoString): the ISO-8601 string
\* carries the instant at millisecond precision, so parsing gives it back.
ToISOString(ms) == [iso |-> ms]
DateParse(s) == s.iso

VARIABLES
  now,             \* the wall clock, in ms
  mapping,         \* the BLOCKCHAIN_MAPPING entries the handlers iterate
  slots,           \* the invocation slots in use in this specification
  kv,              \* the KV store: blockchain_data and last_updated
  kvBy,            \* history: the invocation that wrote each key (0: none)
  started,         \* invocations started so far
  budget,          \* upstream fetches that may still fail in this behaviour
  pc,              \* each slot's position in its handler
  kind,            \* "none", "reader" or "refresher"
  inv,             \* the invocation number running in the slot
  authHeader,      \* req.headers.authorization of a Refresher invocation
  cachedData,      \* Reader: const cachedData
  lastUpdated,     \* Reader: const lastUpdated
  currentTime,     \* Reader: const currentTime (None until read)
  idx,             \* index of the loop's current entry
  tvlData,         \* const tvlData
  priceData,       \* const priceData
  deadline,        \* when the pending setTimeout fires
  newData,         \* const newData
  newLastUpdated,  \* const newLastUpdated
  res,             \* the response sent (None: not yet)
  calls,           \* history: upstream requests issued by the invocation
  gets,            \* history: kv.get calls applied for the invocation
  sets,            \* history: kv.set calls applied for the invocation
  lastResp,        \* history: the upstream answer to the invocation's last fetch
  failed,          \* history: the <<chain, "tvl" or "price">> fetches that failed
  replaced,        \* history: the last_updated value the invocation overwrote
  wrote,           \* history: the value the invocation wrote under each key
  seenBy,          \* history: the invocation that had written each key it read
  overlap,         \* history: invocations that were active during the invocation
  props,           \* BlockchainCard: the tvlData and priceData it is given
  metrics,         \* BlockchainCard: the metrics it has computed (None: not yet)
  mounted,         \* Dashboard: "no" (before its effect ran), "yes" or "gone"
  pageData,        \* Dashboard: the data state (None: undefined)
  pageLastUpdated, \* Dashboard: the lastUpdated state (None: null)
  loading,         \* Dashboard: the loading state
  refreshing,      \* Dashboard: the refreshing state
  intervalId,      \* Dashboard: the interval set by the effect (None: cleared)
  nextFire,        \* Dashboard: when the interval fires next
  polls            \* Dashboard: the fetchData calls, by number

procVars == << pc, kind, inv, authHeader, cachedData, lastUpdated, currentTime,
               idx, tvlData, priceData, deadline, newData, newLastUpdated, res >>
histVars == << calls, gets, sets, lastResp, failed, replaced, wrote, seenBy,
              overlap >>
sysVars == << now, mapping, slots, kv, kvBy, started, budget, procVars, histVars >>
cardVars == << props, metrics >>
pageVars == << mounted, pageData, pageLastUpdated, loading, refreshing, intervalId,
               nextFire, polls >>
srvVars == << mapping, slots, kv, kvBy, started, budget, procVars, histVars >>
vars == << sysVars, cardVars, pageVars >>


\* ------------------------------------------------------------- the upstreams
EntryOf(id) ==
  CHOOSE i \in 1..Len(BLOCKCHAIN_MAPPING) :
    BLOCKCHAIN_MAPPING[i].defillama = id \/ BLOCKCHAIN_MAPPING[i].coingecko = id

\* What api.llama.fi answers for a chain id: [{date: epochSeconds, tvl}, ...].
TvlBody(id) ==
  LET k == EntryOf(id)
  IN  << [date |-> k, tvl |-> 100 * k], [date |-> k + 1, tvl |-> 100 * k + 50] >>

\* What api.coingecko.com answers for a coin id: {prices: [[epochMillis, price], ...]}.
PriceBody(id) ==
  LET k == EntryOf(id)
  IN  << <<k * SEC_MS, 10 * k>>, <<(k + 1) * SEC_MS, 10 * k + 5>> >>

\* The outcome of one fetch(url): a response with a status and a body that
\* response.json() parses or not, or an exception (transport failure).
\* body is None when the parsed JSON lacks the expected content.
Response(status, parses, body) ==
  [kind |-> "response", status |-> status, parses |-> parses, body |-> body]
Exception == [kind |-> "exception", status |-> 0, parses |-> FALSE, body |-> None]

IsOk(resp) ==
  resp.kind = "response" /\ resp.status = 200 /\ resp.parses /\ resp.body # None

\* The answers an upstream may give: the data (200); an error status with no
\* usable body; a success status other than 200 that carries the data; a 200
\* whose body does not parse; for prices a 200 whose JSON has no prices; or
\* the request fails.
TvlResponses(id) ==
  { Response(200, TRUE, Some(TvlBody(id))),
    Response(500, TRUE, None),
    Response(203, TRUE, Some(TvlBody(id))),
    Response(200, FALSE, None),
    Exception }

PriceResponses(id) ==
  { Response(200, TRUE, Some(PriceBody(id))),
    Response(500, TRUE, None),
    Response(203, TRUE, Some(PriceBody(id))),
    Response(200, FALSE, None),
    Response(200, TRUE, None),
    Exception }

\* The slip of testing response.ok (any 2xx) instead of status === 200.
fetchTvlData_OkRange(resp) ==
  IF resp.kind = "exception" THEN <<>>
  ELSE IF resp.status >= 200 /\ resp.status <= 299
       THEN IF ~resp.parses \/ resp.body = None THEN <<>>
            ELSE LET data == resp.body[1]
                 IN  [i \in 1..Len(data) |->
                        [date |-> [iso |-> data[i].date * 1000], tvl |-> data[i].tvl]]
       ELSE <<>>

\* --------------------------------------------------------------- the fetchers
\* fetchTvlData from the answer on: try { status === 200 ? data.map(...) : [] }
\* catch { [] }.  A 200 whose body is no array makes data.map throw.
fetchTvlData(resp) ==
  IF resp.kind = "exception" THEN <<>>
  ELSE IF resp.status = 200
       THEN IF ~resp.parses \/ resp.body = None THEN <<>>
            ELSE LET data == resp.body[1]
                 IN  [i \in 1..Len(data) |->
                        [date |-> ToISOString(data[i].date * SEC_MS),
                         tvl |-> data[i].tvl]]
       ELSE <<>>

\* fetchPriceData from the answer on; prices = data.prices || [].
fetchPriceData(resp) ==
  IF resp.kind = "exception" THEN <<>>
  ELSE IF resp.status = 200
       THEN IF ~resp.parses THEN <<>>
            ELSE LET prices == IF resp.body = None THEN <<>> ELSE resp.body[1]
                 IN  [i \in 1..Len(prices) |->
                        [date |-> ToISOString(prices[i][1]),
                         timestamp |-> prices[i][1],
                         price |-> prices[i][2]]]
       ELSE <<>>

\* ------------------------------------------------------------ the Refresher's check
\* A header is None (absent) or a string, held as its sequence of characters.
StartsWith(s, prefix) ==
  Len(s) >= Len(prefix) /\ SubSeq(s, 1, Len(prefix)) = prefix

BearerPrefix == << "B", "e", "a", "r", "e", "r", " " >>

\* The slip of testing the prefix 'Bearer' without its space.
Authorized_NoSpace(h) ==
  /\ h # None
  /\ h[1] # <<>>
  /\ StartsWith(h[1], << "B", "e", "a", "r", "e", "r" >>)

\* The handler with its commented-out check of the token against CRON_SECRET
\* (here "s") switched on.
Authorized_Validating(h) ==
  /\ h # None
  /\ h[1] # <<>>
  /\ StartsWith(h[1], BearerPrefix)
  /\ SubSeq(h[1], Len(BearerPrefix) + 1, Len(h[1])) = << "s" >>

\* !(!authHeader || !authHeader.startsWith('Bearer ')); "" is falsy.
Authorized(h) ==
  /\ h # None
  /\ h[1] # <<>>
  /\ StartsWith(h[1], BearerPrefix)

Headers ==
  { None,
    Some(<<>>),
    Some(BearerPrefix \o << "x" >>),
    Some(<< "B", "e", "a", "r", "e", "r" >>),
    Some(<< "B", "a", "s", "i", "c", " ", "x" >>) }

\* ------------------------------------------------------------- the Reader's check
\* The slip of comparing the wrong way round.
IsFresh_Inverted(cd, lu, t) ==
  /\ cd # None
  /\ lu # None
  /\ (t - lu[1].iso) > HOUR_MS

\* The slip of <= for <.
IsFresh_Inclusive(cd, lu, t) ==
  /\ cd # None
  /\ lu # None
  /\ (t - lu[1].iso) <= HOUR_MS

\* cachedData && lastUpdated && (currentTime - new Date(lastUpdated)) < 3600000
IsFresh(cd, lu, t) ==
  /\ Truthy(cd)
  /\ Truthy(lu)
  /\ (t - DateParse(lu[1])) < HOUR_MS

\* The slip of labelling the cached Dataset with the time of the read.
HitResponse_Now(cd, lu) ==
  [status |-> 200, body |-> [data |-> cd[1], lastUpdated |-> [iso |-> now]]]

HitResponse(cd, lu) ==
  [status |-> 200, body |-> [data |-> cd[1], lastUpdated |-> lu[1]]]

\* A handler that answers 502 when a series came back empty.
ReaderResponse_ErrOnEmpty(nd, nlu) ==
  IF \E c \in DOMAIN nd.tvl_data : nd.tvl_data[c] = <<>> \/ nd.price_data[c] = <<>>
  THEN [status |-> 502, body |-> [error |-> "Upstream failure"]]
  ELSE [status |-> 200, body |-> [data |-> nd, lastUpdated |-> nlu]]

ReaderResponse(nd, nlu) ==
  [status |-> 200, body |-> [data |-> nd, lastUpdated |-> nlu]]

RefresherResponse(nlu) ==
  [status |-> 200, body |-> [success |-> TRUE, lastUpdated |-> nlu]]

UnauthorizedResponse ==
  [status |-> 401, body |-> [error |-> "Unauthorized"]]

BuildNewData(tvl, price) == [tvl_data |-> tvl, price_data |-> price]

\* ----------------------------------------------------------------------- Init
Active(p) == pc[p] \notin {"idle", "done"}

InitProcs ==
  /\ pc = [p \in Procs |-> "idle"]
  /\ kind = [p \in Procs |-> "none"]
  /\ inv = [p \in Procs |-> 0]
  /\ authHeader = [p \in Procs |-> None]
  /\ cachedData = [p \in Procs |-> None]
  /\ lastUpdated = [p \in Procs |-> None]
  /\ currentTime = [p \in Procs |-> None]
  /\ idx = [p \in Procs |-> 0]
  /\ tvlData = [p \in Procs |-> EmptyObj]
  /\ priceData = [p \in Procs |-> EmptyObj]
  /\ deadline = [p \in Procs |-> 0]
  /\ newData = [p \in Procs |-> None]
  /\ newLastUpdated = [p \in Procs |-> None]
  /\ res = [p \in Procs |-> None]
  /\ calls = [p \in Procs |-> 0]
  /\ gets = [p \in Procs |-> 0]
  /\ sets = [p \in Procs |-> 0]
  /\ lastResp = [p \in Procs |-> None]
  /\ failed = [p \in Procs |-> {}]
  /\ replaced = [p \in Procs |-> None]
  /\ wrote = [p \in Procs |-> [blockchain_data |-> None, last_updated |-> None]]
  /\ seenBy = [p \in Procs |-> [blockchain_data |-> None, last_updated |-> None]]
  /\ overlap = [p \in Procs |-> {}]

\* The Dataset of a run all of whose fetches succeeded.
EntryNamed(m, n) == m[CHOOSE i \in 1..Len(m) : m[i].name = n]

FullDataset(m) ==
  LET names == { m[i].name : i \in 1..Len(m) }
  IN  BuildNewData(
        [n \in names |->
           fetchTvlData(Response(200, TRUE, Some(TvlBody(EntryNamed(m, n).defillama))))],
        [n \in names |->
           fetchPriceData(Response(200, TRUE, Some(PriceBody(EntryNamed(m, n).coingecko))))])

\* The store is empty (a new deployment), or holds the entry that an earlier
\* run (invocation 0, which ended at time 0) has left.
InitStore ==
  /\ now = 0
  /\ \/ kv = [blockchain_data |-> None, last_updated |-> None]
     \/ kv = [blockchain_data |-> Some(FullDataset(mapping)),
              last_updated |-> Some(ToISOString(0))]
  /\ kvBy = [blockchain_data |-> 0, last_updated |-> 0]
  /\ started = 0

\* No card is rendered in the specifications of the handlers.
InitNoCard ==
  /\ props = None
  /\ metrics = None

\* The polls a Dashboard may start in one behaviour.
PollIds == 1..MaxPolls

NoPoll == [stage |-> "none", origin |-> "none", resp |-> None]

\* The Dashboard's state as useState leaves it: data = {}, lastUpdated = null,
\* loading = true, refreshing = false; its effect has not run.
InitDashboard ==
  /\ mounted = "no"
  /\ pageData = Some(EmptyObj)
  /\ pageLastUpdated = None
  /\ loading = TRUE
  /\ refreshing = FALSE
  /\ intervalId = None
  /\ nextFire = 0
  /\ polls = [i \in PollIds |-> NoPoll]

\* Concurrent invocations over the first NumChains entries of the mapping.
Init ==
  /\ InitNoCard
  /\ InitDashboard
  /\ mapping = SubSeq(BLOCKCHAIN_MAPPING, 1, NumChains)
  /\ slots = Procs
  /\ budget = MaxFailures
  /\ InitStore
  /\ InitProcs

\* One invocation at a time over all nine entries of the mapping.
InitNine ==
  /\ InitNoCard
  /\ InitDashboard
  /\ mapping = BLOCKCHAIN_MAPPING
  /\ slots = {1}
  /\ budget = MaxFailuresNine
  /\ InitStore
  /\ InitProcs

\* -------------------------------------------------------------------- actions
\* Time passes otherwise than by the handlers' timers: one timer delay short
\* of a freshness window (the next timer that fires completes the window).
TICK_MS == HOUR_MS - DELAY_MS

Tick ==
  /\ now < MaxHours * HOUR_MS
  /\ now' = now + TICK_MS
  /\ UNCHANGED << mapping, slots, kv, kvBy, started, budget, procVars, histVars,
                  cardVars, pageVars >>

\* A request arrives and gets a fresh invocation, in the first slot that runs
\* none (its locals are those of a handler that has just been called).
Arrive(p, k, h) ==
  /\ p \in slots
  /\ ~Active(p)
  /\ \A q \in slots : q < p => Active(q)
  /\ started < MaxInvocations
  /\ started' = started + 1
  /\ inv' = [inv EXCEPT ![p] = started + 1]
  /\ kind' = [kind EXCEPT ![p] = k]
  /\ authHeader' = [authHeader EXCEPT ![p] = h]
  /\ overlap' = [q \in Procs |->
                   IF q = p THEN { inv[r] : r \in { r \in Procs : Active(r) } }
                   ELSE IF Active(q) THEN overlap[q] \cup {started + 1}
                   ELSE overlap[q]]
  /\ cachedData' = [cachedData EXCEPT ![p] = None]
  /\ lastUpdated' = [lastUpdated EXCEPT ![p] = None]
  /\ currentTime' = [currentTime EXCEPT ![p] = None]
  /\ deadline' = [deadline EXCEPT ![p] = 0]
  /\ newData' = [newData EXCEPT ![p] = None]
  /\ newLastUpdated' = [newLastUpdated EXCEPT ![p] = None]
  /\ gets' = [gets EXCEPT ![p] = 0]
  /\ sets' = [sets EXCEPT ![p] = 0]
  /\ lastResp' = [lastResp EXCEPT ![p] = None]
  /\ failed' = [failed EXCEPT ![p] = {}]
  /\ replaced' = [replaced EXCEPT ![p] = None]
  /\ wrote' = [wrote EXCEPT ![p] = [blockchain_data |-> None, last_updated |-> None]]
  /\ seenBy' = [seenBy EXCEPT ![p] = [blockchain_data |-> None, last_updated |-> None]]
  /\ UNCHANGED << now, mapping, slots, kv, kvBy, budget, cardVars, pageVars >>

\* const tvlData = {}; const priceData = {}; the loop's first
\* fetchTvlData(ids.defillama) issues its request.
BeginLoop(p) ==
  /\ tvlData' = [tvlData EXCEPT ![p] = EmptyObj]
  /\ priceData' = [priceData EXCEPT ![p] = EmptyObj]
  /\ idx' = [idx EXCEPT ![p] = 1]
  /\ calls' = [calls EXCEPT ![p] = 1]
  /\ pc' = [pc EXCEPT ![p] = "tvl"]

\* No request is issued: the loop's variables are as the handler's call left them.
NoLoop(p) ==
  /\ tvlData' = [tvlData EXCEPT ![p] = EmptyObj]
  /\ priceData' = [priceData EXCEPT ![p] = EmptyObj]
  /\ idx' = [idx EXCEPT ![p] = 0]
  /\ calls' = [calls EXCEPT ![p] = 0]

\* Reader: the handler starts and issues kv.get('blockchain_data').
StartReader(p) ==
  /\ Arrive(p, "reader", None)
  /\ pc' = [pc EXCEPT ![p] = "getData"]
  /\ res' = [res EXCEPT ![p] = None]
  /\ NoLoop(p)

\* Reader: kv.get('blockchain_data') answers; kv.get('last_updated') is issued.
GetData(p) ==
  /\ pc[p] = "getData"
  /\ cachedData' = [cachedData EXCEPT ![p] = kv.blockchain_data]
  /\ seenBy' = [seenBy EXCEPT ![p].blockchain_data = Some(kvBy.blockchain_data)]
  /\ gets' = [gets EXCEPT ![p] = @ + 1]
  /\ pc' = [pc EXCEPT ![p] = "getTs"]
  /\ UNCHANGED << now, mapping, slots, kv, kvBy, started, budget, kind, inv,
                  authHeader, lastUpdated, currentTime, idx, tvlData, priceData,
                  deadline, newData, newLastUpdated, res, calls, sets, lastResp,
                  failed, replaced, wrote, overlap, cardVars, pageVars >>

\* Reader: kv.get('last_updated') reads the store.
GetTs(p) ==
  /\ pc[p] = "getTs"
  /\ lastUpdated' = [lastUpdated EXCEPT ![p] = kv.last_updated]
  /\ seenBy' = [seenBy EXCEPT ![p].last_updated = Some(kvBy.last_updated)]
  /\ gets' = [gets EXCEPT ![p] = @ + 1]
  /\ pc' = [pc EXCEPT ![p] = "check"]
  /\ UNCHANGED << now, mapping, slots, kv, kvBy, started, budget, kind, inv,
                  authHeader, cachedData, currentTime, idx, tvlData, priceData,
                  deadline, newData, newLastUpdated, res, calls, sets, lastResp,
                  failed, replaced, wrote, overlap, cardVars, pageVars >>

\* Reader: the handler resumes with both values; currentTime = new Date().
\* Fresh: respond from the cache.  Otherwise the loop starts.
Check(p) ==
  /\ pc[p] = "check"
  /\ currentTime' = [currentTime EXCEPT ![p] = Some(now)]
  /\ IF IsFresh(cachedData[p], lastUpdated[p], now)
     THEN /\ res' = [res EXCEPT ![p] = Some(HitResponse(cachedData[p], lastUpdated[p]))]
          /\ pc' = [pc EXCEPT ![p] = "done"]
          /\ UNCHANGED << idx, tvlData, priceData, calls >>
     ELSE /\ BeginLoop(p)
          /\ UNCHANGED res
  /\ UNCHANGED << now, mapping, slots, kv, kvBy, started, budget, kind, inv,
                  authHeader, cachedData, lastUpdated, deadline, newData,
                  newLastUpdated, gets, sets, lastResp, failed, replaced, wrote, seenBy,
                  overlap, cardVars, pageVars >>

\* Refresher: the handler starts; 401 without a Bearer header, else the loop.
StartRefresher(p, h) ==
  /\ Arrive(p, "refresher", h)
  /\ IF ~Authorized(h)
     THEN /\ res' = [res EXCEPT ![p] = Some(UnauthorizedResponse)]
          /\ pc' = [pc EXCEPT ![p] = "done"]
          /\ NoLoop(p)
     ELSE /\ BeginLoop(p)
          /\ res' = [res EXCEPT ![p] = None]

\* The TVL request of the current entry is answered; the first timer is set.
TvlAnswer(p, resp) ==
  /\ pc[p] = "tvl"
  /\ resp \in TvlResponses(mapping[idx[p]].defillama)
  /\ IsOk(resp) \/ budget > 0
  /\ budget' = IF IsOk(resp) THEN budget ELSE budget - 1
  /\ tvlData' = [tvlData EXCEPT ![p] = SetKey(@, mapping[idx[p]].name, fetchTvlData(resp))]
  /\ lastResp' = [lastResp EXCEPT ![p] = Some(resp)]
  /\ failed' = [failed EXCEPT ![p] =
                  IF IsOk(resp) THEN @ ELSE @ \cup {<<mapping[idx[p]].name, "tvl">>}]
  /\ deadline' = [deadline EXCEPT ![p] = now + DELAY_MS]
  /\ pc' = [pc EXCEPT ![p] = "delay1"]
  /\ UNCHANGED << now, mapping, slots, kv, kvBy, started, kind, inv, authHeader,
                  cachedData, lastUpdated, currentTime, idx, priceData, newData,
                  newLastUpdated, res, calls, gets, sets, replaced, wrote, seenBy,
                  overlap, cardVars, pageVars >>

TvlDone(p) ==
  /\ pc[p] = "tvl"
  /\ \E resp \in TvlResponses(mapping[idx[p]].defillama) : TvlAnswer(p, resp)

\* The slip of not awaiting the timer: the price request goes out at once.
Delay1_NoWait(p) ==
  /\ pc[p] = "delay1"
  /\ now' = now
  /\ calls' = [calls EXCEPT ![p] = @ + 1]
  /\ pc' = [pc EXCEPT ![p] = "price"]
  /\ UNCHANGED << mapping, slots, kv, kvBy, started, budget, kind, inv, authHeader,
                  cachedData, lastUpdated, currentTime, idx, tvlData, priceData,
                  deadline, newData, newLastUpdated, res, gets, sets, lastResp,
                  failed, replaced, wrote, seenBy, overlap, cardVars, pageVars >>

\* The first timer fires (the clock has reached its deadline); the price
\* request of the current entry is issued.
Delay1(p) ==
  /\ pc[p] = "delay1"
  /\ now' = Max(now, deadline[p])
  /\ calls' = [calls EXCEPT ![p] = @ + 1]
  /\ pc' = [pc EXCEPT ![p] = "price"]
  /\ UNCHANGED << mapping, slots, kv, kvBy, started, budget, kind, inv, authHeader,
                  cachedData, lastUpdated, currentTime, idx, tvlData, priceData,
                  deadline, newData, newLastUpdated, res, gets, sets, lastResp,
                  failed, replaced, wrote, seenBy, overlap, cardVars, pageVars >>

\* The price request of the current entry is answered; the second timer is set.
PriceAnswer(p, resp) ==
  /\ pc[p] = "price"
  /\ resp \in PriceResponses(mapping[idx[p]].coingecko)
  /\ IsOk(resp) \/ budget > 0
  /\ budget' = IF IsOk(resp) THEN budget ELSE budget - 1
  /\ priceData' = [priceData EXCEPT ![p] = SetKey(@, mapping[idx[p]].name, fetchPriceData(resp))]
  /\ lastResp' = [lastResp EXCEPT ![p] = Some(resp)]
  /\ failed' = [failed EXCEPT ![p] =
                  IF IsOk(resp) THEN @ ELSE @ \cup {<<mapping[idx[p]].name, "price">>}]
  /\ deadline' = [deadline EXCEPT ![p] = now + DELAY_MS]
  /\ pc' = [pc EXCEPT ![p] = "delay2"]
  /\ UNCHANGED << now, mapping, slots, kv, kvBy, started, kind, inv, authHeader,
                  cachedData, lastUpdated, currentTime, idx, tvlData, newData,
                  newLastUpdated, res, calls, gets, sets, replaced, wrote, seenBy,
                  overlap, cardVars, pageVars >>

PriceDone(p) ==
  /\ pc[p] = "price"
  /\ \E resp \in PriceResponses(mapping[idx[p]].coingecko) : PriceAnswer(p, resp)

\* A loop that gives up when a fetch of the run has failed: the handler ends
\* without writing or responding.
Delay2_AbortOnFailure(p) ==
  /\ pc[p] = "delay2"
  /\ now' = Max(now, deadline[p])
  /\ IF idx[p] < Len(mapping)
     THEN /\ idx' = [idx EXCEPT ![p] = @ + 1]
          /\ calls' = [calls EXCEPT ![p] = @ + 1]
          /\ pc' = [pc EXCEPT ![p] = "tvl"]
          /\ UNCHANGED << newData, newLastUpdated >>
     ELSE /\ newData' = [newData EXCEPT ![p] = Some(BuildNewData(tvlData[p], priceData[p]))]
          /\ newLastUpdated' = [newLastUpdated EXCEPT ![p] = Some(ToISOString(now'))]
          /\ pc' = [pc EXCEPT ![p] = IF failed[p] = {} THEN "setData" ELSE "done"]
          /\ UNCHANGED << idx, calls >>
  /\ UNCHANGED << mapping, slots, kv, kvBy, started, budget, kind, inv, authHeader,
                  cachedData, lastUpdated, currentTime, tvlData, priceData, deadline,
                  res, gets, sets, lastResp, failed, replaced, wrote, seenBy, overlap, cardVars, pageVars >>

\* The second timer fires.  With entries left, the next entry's TVL request
\* is issued; after the last one newData and newLastUpdated are built and
\* kv.set('blockchain_data', newData) is issued.
Delay2(p) ==
  /\ pc[p] = "delay2"
  /\ now' = Max(now, deadline[p])
  /\ IF idx[p] < Len(mapping)
     THEN /\ idx' = [idx EXCEPT ![p] = @ + 1]
          /\ calls' = [calls EXCEPT ![p] = @ + 1]
          /\ pc' = [pc EXCEPT ![p] = "tvl"]
          /\ UNCHANGED << newData, newLastUpdated >>
     ELSE /\ newData' = [newData EXCEPT ![p] = Some(BuildNewData(tvlData[p], priceData[p]))]
          /\ newLastUpdated' = [newLastUpdated EXCEPT ![p] = Some(ToISOString(now'))]
          /\ pc' = [pc EXCEPT ![p] = "setData"]
          /\ UNCHANGED << idx, calls >>
  /\ UNCHANGED << mapping, slots, kv, kvBy, started, budget, kind, inv, authHeader,
                  cachedData, lastUpdated, currentTime, tvlData, priceData, deadline,
                  res, gets, sets, lastResp, failed, replaced, wrote, seenBy, overlap, cardVars, pageVars >>

\* A store write that keeps the cached series of a chain whose new series is
\* empty.
KeepCached(new, old) ==
  [c \in DOMAIN new |->
     IF new[c] = <<>> /\ c \in DOMAIN old THEN old[c] ELSE new[c]]

SetData_Merge(p) ==
  /\ pc[p] = "setData"
  /\ kv' = [kv EXCEPT !.blockchain_data =
              IF kv.blockchain_data = None THEN newData[p]
              ELSE Some([tvl_data |-> KeepCached(newData[p][1].tvl_data,
                                                 kv.blockchain_data[1].tvl_data),
                         price_data |-> KeepCached(newData[p][1].price_data,
                                                   kv.blockchain_data[1].price_data)])]
  /\ kvBy' = [kvBy EXCEPT !.blockchain_data = inv[p]]
  /\ wrote' = [wrote EXCEPT ![p].blockchain_data = newData[p]]
  /\ sets' = [sets EXCEPT ![p] = @ + 1]
  /\ pc' = [pc EXCEPT ![p] = "setTs"]
  /\ UNCHANGED << now, mapping, slots, started, budget, kind, inv, authHeader,
                  cachedData, lastUpdated, currentTime, idx, tvlData, priceData,
                  deadline, newData, newLastUpdated, res, calls, gets, lastResp,
                  failed, replaced, seenBy, overlap, cardVars, pageVars >>

\* The slip of writing the timestamp first: the first kv.set stores
\* last_updated.
SetData_TsFirst(p) ==
  /\ pc[p] = "setData"
  /\ kv' = [kv EXCEPT !.last_updated = newLastUpdated[p]]
  /\ kvBy' = [kvBy EXCEPT !.last_updated = inv[p]]
  /\ wrote' = [wrote EXCEPT ![p].last_updated = newLastUpdated[p]]
  /\ sets' = [sets EXCEPT ![p] = @ + 1]
  /\ pc' = [pc EXCEPT ![p] = "setTs"]
  /\ UNCHANGED << now, mapping, slots, started, budget, kind, inv, authHeader,
                  cachedData, lastUpdated, currentTime, idx, tvlData, priceData,
                  deadline, newData, newLastUpdated, res, calls, gets, lastResp,
                  failed, replaced, seenBy, overlap, cardVars, pageVars >>

\* kv.set('blockchain_data', newData) is applied; kv.set('last_updated', ...)
\* is issued.
SetData(p) ==
  /\ pc[p] = "setData"
  /\ kv' = [kv EXCEPT !.blockchain_data = newData[p]]
  /\ kvBy' = [kvBy EXCEPT !.blockchain_data = inv[p]]
  /\ wrote' = [wrote EXCEPT ![p].blockchain_data = newData[p]]
  /\ sets' = [sets EXCEPT ![p] = @ + 1]
  /\ pc' = [pc EXCEPT ![p] = "setTs"]
  /\ UNCHANGED << now, mapping, slots, started, budget, kind, inv, authHeader,
                  cachedData, lastUpdated, currentTime, idx, tvlData, priceData,
                  deadline, newData, newLastUpdated, res, calls, gets, lastResp,
                  failed, replaced, seenBy, overlap, cardVars, pageVars >>

\* kv.set('last_updated', newLastUpdated) is applied.
SetTs(p) ==
  /\ pc[p] = "setTs"
  /\ kv' = [kv EXCEPT !.last_updated = newLastUpdated[p]]
  /\ kvBy' = [kvBy EXCEPT !.last_updated = inv[p]]
  /\ replaced' = [replaced EXCEPT ![p] = kv.last_updated]
  /\ wrote' = [wrote EXCEPT ![p].last_updated = newLastUpdated[p]]
  /\ sets' = [sets EXCEPT ![p] = @ + 1]
  /\ pc' = [pc EXCEPT ![p] = "respond"]
  /\ UNCHANGED << now, mapping, slots, started, budget, kind, inv, authHeader,
                  cachedData, lastUpdated, currentTime, idx, tvlData, priceData,
                  deadline, newData, newLastUpdated, res, calls, gets, lastResp,
                  failed, seenBy, overlap, cardVars, pageVars >>

\* A handler that answers with what the store holds when it responds.
Respond_FromStore(p) ==
  /\ pc[p] = "respond"
  /\ res' = [res EXCEPT ![p] =
               Some(IF kind[p] = "reader"
                    THEN ReaderResponse(kv.blockchain_data[1], kv.last_updated[1])
                    ELSE RefresherResponse(kv.last_updated[1]))]
  /\ pc' = [pc EXCEPT ![p] = "done"]
  /\ UNCHANGED << now, mapping, slots, kv, kvBy, started, budget, kind, inv,
                  authHeader, cachedData, lastUpdated, currentTime, idx, tvlData,
                  priceData, deadline, newData, newLastUpdated, calls, gets, sets,
                  lastResp, failed, replaced, wrote, seenBy, overlap, cardVars, pageVars >>

\* The handler resumes after both writes and sends its response.
Respond(p) ==
  /\ pc[p] = "respond"
  /\ res' = [res EXCEPT ![p] =
               Some(IF kind[p] = "reader"
                    THEN ReaderResponse(newData[p][1], newLastUpdated[p][1])
                    ELSE RefresherResponse(newLastUpdated[p][1]))]
  /\ pc' = [pc EXCEPT ![p] = "done"]
  /\ UNCHANGED << now, mapping, slots, kv, kvBy, started, budget, kind, inv,
                  authHeader, cachedData, lastUpdated, currentTime, idx, tvlData,
                  priceData, deadline, newData, newLastUpdated, calls, gets, sets,
                  lastResp, failed, replaced, wrote, seenBy, overlap, cardVars, pageVars >>

Next ==
  \/ Tick
  \/ \E p \in Procs : StartReader(p)
  \/ \E p \in Procs : GetData(p)
  \/ \E p \in Procs : GetTs(p)
  \/ \E p \in Procs : Check(p)
  \/ \E p \in Procs, h \in Headers : StartRefresher(p, h)
  \/ \E p \in Procs : TvlDone(p)
  \/ \E p \in Procs : Delay1(p)
  \/ \E p \in Procs : PriceDone(p)
  \/ \E p \in Procs : Delay2(p)
  \/ \E p \in Procs : SetData(p)
  \/ \E p \in Procs : SetTs(p)
  \/ \E p \in Procs : Respond(p)

Spec == Init /\ [][Next]_vars

SpecNine == InitNine /\ [][Next]_vars

\* Every awaited operation of a running handler completes: the store answers
\* each kv.get and kv.set, each upstream request returns or fails, and each
\* timer fires.
HandlerStep(p) ==
  \/ GetData(p)
  \/ GetTs(p)
  \/ Check(p)
  \/ TvlDone(p)
  \/ Delay1(p)
  \/ PriceDone(p)
  \/ Delay2(p)
  \/ SetData(p)
  \/ SetTs(p)
  \/ Respond(p)

Fairness == \A p \in Procs : WF_vars(HandlerStep(p))

\* One invocation at a time over all nine entries, and every awaited operation
\* completes.
InitLive ==
  /\ InitNoCard
  /\ InitDashboard
  /\ mapping = BLOCKCHAIN_MAPPING
  /\ slots = {1}
  /\ budget = MaxFailures
  /\ InitStore
  /\ InitProcs

FairSpecNine == InitLive /\ [][Next]_vars /\ Fairness

\* ------------------------------------------------------------ BlockchainCard
\* tvlData.map(item => ({date: new Date(item.date), tvl: item.tvl}))
FormatTvl(tvlProp) ==
  [i \in 1..Len(tvlProp) |->
     [date |-> DateParse(tvlProp[i].date), tvl |-> tvlProp[i].tvl]]

\* priceData.map(item => ({date: new Date(item.date), price: item.price}))
FormatPrice(priceProp) ==
  [i \in 1..Len(priceProp) |->
     [date |-> DateParse(priceProp[i].date), price |-> priceProp[i].price]]

\* arr[j] of a JavaScript array (indices from 0); None is undefined.
At(arr, j) == IF j + 1 \in DOMAIN arr THEN Some(arr[j + 1]) ELSE None

\* The slip of length - 30 for length - 31.
MonthAgoIndex_OffByOne(length) ==
  IF length > LOOKBACK_LEN THEN length - LOOKBACK_LEN ELSE 0

\* length > 30 ? length - 31 : 0
MonthAgoIndex(length) ==
  IF length > LOOKBACK_LEN THEN length - LOOKBACK_BACK ELSE 0

\* length > 0 ? arr[length - 1].value : 0, with the values of the series given
CurrentOf(values) ==
  IF Len(values) > 0 THEN At(values, Len(values) - 1)[1] ELSE 0

\* length > 0 ? arr[monthAgoIndex].value : 0
MonthAgoOf(values) ==
  IF Len(values) > 0 THEN At(values, MonthAgoIndex(Len(values)))[1] ELSE 0

\* A JavaScript number that a division produced, as the exact quotient
\* num / den; den = 0 is what a division by zero leaves (Infinity or NaN).
Number(n) == [num |-> n, den |-> 1]
Divide(a, b) == [num |-> a, den |-> b]
Times(q, k) == [num |-> q.num * k, den |-> q.den]

\* The slip of guarding on the current value instead of the month-ago one.
MonthlyChange_GuardCurrent(current, monthAgo) ==
  IF current > 0
  THEN Times(Divide(current - monthAgo, monthAgo), 100)
  ELSE Number(0)

\* monthAgo > 0 ? ((current - monthAgo) / monthAgo) * 100 : 0
MonthlyChange(current, monthAgo) ==
  IF monthAgo > 0
  THEN Times(Divide(current - monthAgo, monthAgo), PERCENT)
  ELSE Number(0)

ComputeMetrics(tvlProp, priceProp) ==
  LET tvls == [i \in 1..Len(tvlProp) |-> FormatTvl(tvlProp)[i].tvl]
      prices == [i \in 1..Len(priceProp) |-> FormatPrice(priceProp)[i].price]
  IN  [currentTvl |-> CurrentOf(tvls),
       monthAgoTvlIndex |-> MonthAgoIndex(Len(tvls)),
       monthAgoTvl |-> MonthAgoOf(tvls),
       tvlMonthlyChange |-> MonthlyChange(CurrentOf(tvls), MonthAgoOf(tvls)),
       currentPrice |-> CurrentOf(prices),
       monthAgoPriceIndex |-> MonthAgoIndex(Len(prices)),
       monthAgoPrice |-> MonthAgoOf(prices),
       priceMonthlyChange |-> MonthlyChange(CurrentOf(prices), MonthAgoOf(prices))]

\* The series a card may be given: one point an hour (TLC's integers have 32
\* bits, which daily epoch milliseconds would overflow), the values rising
\* from 0, falling to 1, all zero, or rising from below zero.
Shapes == {"rising", "falling", "zero", "negative"}

ValueAt(shape, i, n) ==
  CASE shape = "rising" -> 10 * (i - 1)
    [] shape = "falling" -> 10 * (n - i) + 1
    [] shape = "negative" -> 10 * (i - 1) - 15
    [] OTHER -> 0

TvlSeries(n, shape) ==
  [i \in 1..n |-> [date |-> ToISOString(i * HOUR_MS), tvl |-> ValueAt(shape, i, n)]]

PriceSeries(n, shape) ==
  [i \in 1..n |-> [date |-> ToISOString(i * HOUR_MS), timestamp |-> i * HOUR_MS,
                   price |-> ValueAt(shape, i, n)]]

InitCard ==
  /\ mapping = BLOCKCHAIN_MAPPING
  /\ slots = {}
  /\ budget = 0
  /\ now = 0
  /\ kv = [blockchain_data |-> None, last_updated |-> None]
  /\ kvBy = [blockchain_data |-> 0, last_updated |-> 0]
  /\ started = 0
  /\ InitProcs
  /\ InitDashboard
  /\ \E nT \in 0..MaxSeriesLen, nP \in 0..MaxSeriesLen, sT \in Shapes, sP \in Shapes :
       props = Some([tvlData |-> TvlSeries(nT, sT), priceData |-> PriceSeries(nP, sP)])
  /\ metrics = None

\* The component renders: the metrics are computed from the props.
Render ==
  /\ props # None
  /\ metrics = None
  /\ metrics' = Some(ComputeMetrics(props[1].tvlData, props[1].priceData))
  /\ UNCHANGED << props, sysVars, pageVars >>

NextCard == Render

SpecCard == InitCard /\ [][NextCard]_vars


\* ----------------------------------------------------------------- Dashboard
\* What fetch('/api/blockchain-data') may give the page: the Reader's 200
\* with one of two Datasets and timestamps, a JSON error body, a body that
\* response.json() cannot parse, or a rejected request.
PageDatasets ==
  { FullDataset(SubSeq(BLOCKCHAIN_MAPPING, 1, 1)),
    BuildNewData([n \in {"Aptos"} |-> <<>>], [n \in {"Aptos"} |-> <<>>]) }

PageResponses ==
  { Response(200, TRUE, Some(ReaderResponse(d, ToISOString(t)).body)) :
      d \in PageDatasets, t \in {0, INTERVAL_MS} }
  \cup { Response(500, TRUE, Some([error |-> "Internal Server Error"])),
         Response(504, FALSE, None),
         Exception }

\* obj.key of a parsed JSON object (None: undefined).
Field(obj, key) == IF key \in DOMAIN obj THEN Some(obj[key]) ELSE None

\* new Date(x): an Invalid Date for undefined.
NewDate(x) ==
  IF x = None THEN [valid |-> FALSE, time |-> 0]
  ELSE [valid |-> TRUE, time |-> DateParse(x[1])]

Started == { i \in PollIds : polls[i].stage # "none" }

\* fetchData() is called: it issues fetch('/api/blockchain-data') and returns.
StartPoll(origin) ==
  /\ Cardinality(Started) < MaxPolls
  /\ polls' = [polls EXCEPT ![Cardinality(Started) + 1] =
                 [stage |-> "fetch", origin |-> origin, resp |-> None]]

\* The slip of clearing the display when a poll fails.
PollCatch_Reset(i) ==
  /\ loading' = FALSE
  /\ refreshing' = FALSE
  /\ pageData' = Some(EmptyObj)
  /\ pageLastUpdated' = None
  /\ polls' = [polls EXCEPT ![i] = [@ EXCEPT !.stage = "failed", !.resp = None]]

\* catch (error) { setLoading(false); setRefreshing(false); }
PollCatch(i) ==
  /\ loading' = FALSE
  /\ refreshing' = FALSE
  /\ UNCHANGED << pageData, pageLastUpdated >>
  /\ polls' = [polls EXCEPT ![i] = [@ EXCEPT !.stage = "failed", !.resp = None]]

\* useEffect(() => { fetchData(); const intervalId = setInterval(...); }, [])
Mount ==
  /\ mounted = "no"
  /\ mounted' = "yes"
  /\ StartPoll("mount")
  /\ intervalId' = Some(1)
  /\ nextFire' = now + INTERVAL_MS
  /\ UNCHANGED << pageData, pageLastUpdated, loading, refreshing, sysVars, cardVars >>

\* The interval fires: fetchData().
IntervalFire ==
  /\ intervalId # None
  /\ now >= nextFire
  /\ StartPoll("interval")
  /\ nextFire' = nextFire + INTERVAL_MS
  /\ UNCHANGED << mounted, pageData, pageLastUpdated, loading, refreshing, intervalId,
                  sysVars, cardVars >>

\* handleRefresh: setRefreshing(true); fetchData().  The button is rendered
\* when loading is false and is disabled while refreshing.
HandleRefresh ==
  /\ mounted = "yes"
  /\ ~loading
  /\ ~refreshing
  /\ refreshing' = TRUE
  /\ StartPoll("manual")
  /\ UNCHANGED << mounted, pageData, pageLastUpdated, loading, intervalId, nextFire,
                  sysVars, cardVars >>

\* await fetch(...) settles: rejected (catch), or with a response, and
\* response.json() is awaited.
FetchAnswer(i, r) ==
  /\ polls[i].stage = "fetch"
  /\ IF r.kind = "exception"
     THEN PollCatch(i)
     ELSE /\ polls' = [polls EXCEPT ![i] = [@ EXCEPT !.stage = "json", !.resp = Some(r)]]
          /\ UNCHANGED << pageData, pageLastUpdated, loading, refreshing >>
  /\ UNCHANGED << mounted, intervalId, nextFire, sysVars, cardVars >>

\* await response.json() settles: it throws (catch), or gives result and
\* setData(result.data); setLastUpdated(new Date(result.lastUpdated));
\* setLoading(false); setRefreshing(false).
JsonAnswer(i) ==
  /\ polls[i].stage = "json"
  /\ LET r == polls[i].resp[1]
     IN  IF ~r.parses
         THEN PollCatch(i)
         ELSE /\ pageData' = Field(r.body[1], "data")
              /\ pageLastUpdated' = Some(NewDate(Field(r.body[1], "lastUpdated")))
              /\ loading' = FALSE
              /\ refreshing' = FALSE
              /\ polls' = [polls EXCEPT ![i] = [@ EXCEPT !.stage = "done", !.resp = None]]
  /\ UNCHANGED << mounted, intervalId, nextFire, sysVars, cardVars >>

\* The effect's cleanup: clearInterval(intervalId).
Unmount ==
  /\ mounted = "yes"
  /\ mounted' = "gone"
  /\ intervalId' = None
  /\ UNCHANGED << pageData, pageLastUpdated, loading, refreshing, nextFire, polls,
                  sysVars, cardVars >>

\* An hour passes on the page's clock.
PageTick ==
  /\ mounted # "no"
  /\ now < MaxPageHours * INTERVAL_MS
  /\ now' = now + INTERVAL_MS
  /\ UNCHANGED << srvVars, cardVars, pageVars >>

InitPage ==
  /\ InitNoCard
  /\ InitDashboard
  /\ mapping = BLOCKCHAIN_MAPPING
  /\ slots = {}
  /\ budget = 0
  /\ now = 0
  /\ kv = [blockchain_data |-> None, last_updated |-> None]
  /\ kvBy = [blockchain_data |-> 0, last_updated |-> 0]
  /\ started = 0
  /\ InitProcs

NextPage ==
  \/ Mount
  \/ IntervalFire
  \/ HandleRefresh
  \/ \E i \in PollIds, r \in PageResponses : FetchAnswer(i, r)
  \/ \E i \in PollIds : JsonAnswer(i)
  \/ Unmount
  \/ PageTick

SpecPage == InitPage /\ [][NextPage]_vars


\* ===================================================================== claims
NoWrites == [blockchain_data |-> None, last_updated |-> None]

\* The Reader has read the clock and found both keys, less than one hour old.
FoundFresh(p) ==
  /\ cachedData[p] # None
  /\ lastUpdated[p] # None
  /\ currentTime[p][1] - lastUpdated[p][1].iso < 3600000

\* The Reader has made its freshness check.
Checked(p) == kind[p] = "reader" /\ currentTime[p] # None

\* C1 (cache hit).  A Reader that finds blockchain_data and last_updated in the
\* store, the latter less than 3600000 ms old, issues no upstream request,
\* writes nothing to the store and responds 200 with exactly the Dataset and
\* the timestamp it read.
C1_CacheHit ==
  \A p \in Procs :
    (Checked(p) /\ FoundFresh(p)) =>
      /\ pc[p] = "done"
      /\ calls[p] = 0
      /\ sets[p] = 0
      /\ wrote[p] = NoWrites
      /\ res[p] = Some([status |-> 200,
                        body |-> [data |-> cachedData[p][1],
                                  lastUpdated |-> lastUpdated[p][1]]])

\* A Reader has answered from an entry that is some time old (not the instant
\* it was written).
C1_Witness ==
  \E p \in Procs :
    /\ Checked(p) /\ FoundFresh(p)
    /\ pc[p] = "done"
    /\ currentTime[p][1] - lastUpdated[p][1].iso > 0

\* C2 as stated (cache miss).  A Reader that finds a key absent or the entry
\* 3600000 ms old or older runs the Aggregator and overwrites the store, and the
\* last_updated it writes is >= the last_updated it replaces, under every
\* interleaving.
C2_Original ==
  \A p \in Procs :
    (Checked(p) /\ ~FoundFresh(p)) =>
      /\ pc[p] = "done" => (calls[p] = 2 * Len(mapping) /\ sets[p] = 2)
      /\ (wrote[p].last_updated # None /\ replaced[p] # None) =>
           wrote[p].last_updated[1].iso >= replaced[p][1].iso

\* C2 as amended.  Such a Reader runs the Aggregator (two requests per entry),
\* writes both keys before it responds, and the last_updated it writes is >=
\* the last_updated it read; it is >= the value it replaces when no other
\* invocation ran during this one.
C2_CacheMiss ==
  \A p \in Procs :
    (Checked(p) /\ ~FoundFresh(p)) =>
      /\ calls[p] >= 1
      /\ pc[p] = "done" => (calls[p] = 2 * Len(mapping) /\ sets[p] = 2)
      /\ res[p] # None =>
           (wrote[p].blockchain_data # None /\ wrote[p].last_updated # None)
      /\ (wrote[p].last_updated # None /\ lastUpdated[p] # None) =>
           wrote[p].last_updated[1].iso >= lastUpdated[p][1].iso
      /\ (wrote[p].last_updated # None /\ replaced[p] # None /\ overlap[p] = {}) =>
           wrote[p].last_updated[1].iso >= replaced[p][1].iso

\* A Reader that found a stale entry has replaced its timestamp and responded.
C2_Witness ==
  \E p \in Procs :
    /\ Checked(p) /\ ~FoundFresh(p)
    /\ lastUpdated[p] # None
    /\ replaced[p] # None
    /\ pc[p] = "done"

\* C3 (the Dataset's keys).  Every Dataset a run builds, and so the one in the
\* store, has exactly the nine chain names as the keys of tvl_data and of
\* price_data, whatever fetches failed; a failed fetch leaves an empty
\* sequence under its chain's key.
NineChains ==
  { "Aptos", "Avalanche", "Core DAO", "Flow", "Injective", "Optimism", "Polygon",
    "XRP/XRPL", "Sei" }

HasNineKeys(d) ==
  /\ DOMAIN d.tvl_data = NineChains
  /\ DOMAIN d.price_data = NineChains

C3_NineKeys ==
  /\ Cardinality(NineChains) = 9
  /\ kv.blockchain_data # None => HasNineKeys(kv.blockchain_data[1])
  /\ \A p \in Procs :
       /\ newData[p] # None =>
            /\ HasNineKeys(newData[p][1])
            /\ \A f \in failed[p] :
                 IF f[2] = "tvl" THEN newData[p][1].tvl_data[f[1]] = <<>>
                 ELSE newData[p][1].price_data[f[1]] = <<>>
       /\ wrote[p].blockchain_data # None => wrote[p].blockchain_data = newData[p]

\* A run two of whose fetches failed has stored its Dataset.
C3_Witness ==
  \E p \in Procs :
    /\ Cardinality(failed[p]) = 2
    /\ pc[p] = "done"
    /\ kvBy.blockchain_data = inv[p]
    /\ kv.blockchain_data = newData[p]

\* C4 (unauthorized refresh).  A Refresher invocation whose Authorization header
\* is absent or does not start with "Bearer " responds 401 {error:
\* "Unauthorized"}, issues no upstream request, and neither reads nor writes
\* the store.
HasBearer(h) ==
  /\ h # None
  /\ Len(h[1]) >= 7
  /\ SubSeq(h[1], 1, 7) = << "B", "e", "a", "r", "e", "r", " " >>

C4_Unauthorized ==
  \A p \in Procs :
    (kind[p] = "refresher" /\ ~HasBearer(authHeader[p])) =>
      /\ pc[p] = "done"
      /\ res[p] = Some([status |-> 401, body |-> [error |-> "Unauthorized"]])
      /\ calls[p] = 0
      /\ gets[p] = 0
      /\ sets[p] = 0
      /\ wrote[p] = NoWrites
      /\ kvBy.blockchain_data # inv[p]
      /\ kvBy.last_updated # inv[p]

\* A request with a header of another scheme has been refused while the store
\* holds an entry.
C4_Witness ==
  \E p \in Procs :
    /\ kind[p] = "refresher"
    /\ authHeader[p] # None
    /\ ~HasBearer(authHeader[p])
    /\ pc[p] = "done"
    /\ kv.blockchain_data # None

\* C5 as stated (the entry is replaced atomically).  In every state of the
\* store, blockchain_data and last_updated were written by the same run
\* (invocation 0 is the run that left the initial entry), and one is present
\* exactly when the other is.
C5_SameRun ==
  /\ kvBy.blockchain_data = kvBy.last_updated
  /\ (kv.blockchain_data = None) <=> (kv.last_updated = None)

\* C6 (authorized refresh).  A Refresher invocation whose header starts with
\* "Bearer " never reads the store, and once it has responded it has issued two
\* requests per mapping entry, written both keys, and answered 200 {success:
\* true, lastUpdated} with the timestamp it wrote, whatever the store held.
C6_AuthorizedRefresh ==
  \A p \in Procs :
    (kind[p] = "refresher" /\ HasBearer(authHeader[p])) =>
      /\ gets[p] = 0
      /\ cachedData[p] = None /\ lastUpdated[p] = None
      /\ calls[p] >= 1
      /\ pc[p] = "done" =>
           /\ calls[p] = 2 * Len(mapping)
           /\ sets[p] = 2
           /\ wrote[p].blockchain_data # None
           /\ wrote[p].last_updated # None
           /\ res[p] = Some([status |-> 200,
                             body |-> [success |-> TRUE,
                                       lastUpdated |-> wrote[p].last_updated[1]]])

\* An authorized Refresher has overwritten an entry that was less than one
\* hour old, and responded.
C6_Witness ==
  \E p \in Procs :
    /\ kind[p] = "refresher" /\ HasBearer(authHeader[p])
    /\ pc[p] = "done"
    /\ replaced[p] # None
    /\ wrote[p].last_updated[1].iso - replaced[p][1].iso < 3600000

\* C7 (the fetchers).  Each fetch issues one request.  An answer that is an
\* exception, has a status other than 200 or does not parse gives the empty
\* sequence under the chain's key; the run goes on to write both keys and
\* respond 200; and every chain whose fetch did not fail holds the series its
\* upstream sent, normalised, whatever happened to the other chains.
Failure(r) == r.kind = "exception" \/ r.status # 200 \/ ~r.parses

SentTvl(name) ==
  LET data == TvlBody(EntryNamed(mapping, name).defillama)
  IN  [i \in 1..Len(data) |->
         [date |-> [iso |-> data[i].date * 1000], tvl |-> data[i].tvl]]

SentPrice(name) ==
  LET prices == PriceBody(EntryNamed(mapping, name).coingecko)
  IN  [i \in 1..Len(prices) |->
         [date |-> [iso |-> prices[i][1]], timestamp |-> prices[i][1],
          price |-> prices[i][2]]]

C7_Fetchers ==
  \A p \in Procs :
    /\ pc[p] \in {"tvl", "delay1"} => calls[p] = 2 * idx[p] - 1
    /\ pc[p] \in {"price", "delay2"} => calls[p] = 2 * idx[p]
    /\ pc[p] \in {"setData", "setTs", "respond"} => calls[p] = 2 * Len(mapping)
    /\ (pc[p] = "delay1" /\ Failure(lastResp[p][1])) =>
         tvlData[p][mapping[idx[p]].name] = <<>>
    /\ (pc[p] = "delay2" /\ Failure(lastResp[p][1])) =>
         priceData[p][mapping[idx[p]].name] = <<>>
    /\ \A c \in DOMAIN tvlData[p] :
         <<c, "tvl">> \notin failed[p] => tvlData[p][c] = SentTvl(c)
    /\ \A c \in DOMAIN priceData[p] :
         <<c, "price">> \notin failed[p] => priceData[p][c] = SentPrice(c)
    /\ (pc[p] = "done" /\ failed[p] # {}) =>
         /\ sets[p] = 2
         /\ res[p][1].status = 200
         /\ wrote[p].blockchain_data =
              Some([tvl_data |-> tvlData[p], price_data |-> priceData[p]])

\* A run one of whose TVL fetches failed has stored the full series of another
\* chain whose fetch came later, and responded.
C7_Witness ==
  \E p \in Procs :
    /\ pc[p] = "done"
    /\ <<"Aptos", "tvl">> \in failed[p]
    /\ kv.blockchain_data # None
    /\ kvBy.blockchain_data = inv[p]
    /\ kv.blockchain_data[1].tvl_data["Aptos"] = <<>>
    /\ kv.blockchain_data[1].tvl_data["Sei"] = SentTvl("Sei")

Overlapping(p, q) ==
  /\ p # q
  /\ kind[p] = "reader" /\ kind[q] = "reader"
  /\ pc[p] = "done" /\ pc[q] = "done"
  /\ inv[q] \in overlap[p]

LookbackRight(n, index, monthAgo, current, values) ==
  n > 0 =>
    /\ index = IF n <= 30 THEN 0 ELSE n - 31
    /\ index >= 0 /\ index < n
    /\ monthAgo = values[index + 1]
    /\ current = values[n]

C10_LookbackIndex ==
  metrics # None =>
    LET m == metrics[1]
        tvl == props[1].tvlData
        price == props[1].priceData
    IN  /\ LookbackRight(Len(tvl), m.monthAgoTvlIndex, m.monthAgoTvl, m.currentTvl,
                         [i \in 1..Len(tvl) |-> tvl[i].tvl])
        /\ LookbackRight(Len(price), m.monthAgoPriceIndex, m.monthAgoPrice,
                         m.currentPrice, [i \in 1..Len(price) |-> price[i].price])

\* A card has computed its metrics from a TVL series of more than 31 points
\* and a price series of fewer than 30.
C10_Witness ==
  /\ metrics # None
  /\ Len(props[1].tvlData) > 31
  /\ Len(props[1].priceData) > 0 /\ Len(props[1].priceData) < 30
  /\ metrics[1].monthAgoTvlIndex > 0
  /\ metrics[1].monthAgoTvl # metrics[1].currentTvl

\* C11 (30-day change value).  For the TVL and the price series alike the
\* change is the quotient (current - monthAgo) * 100 / monthAgo when the
\* month-ago value is positive, is 0 when the series is empty or the month-ago
\* value is not positive, and never comes from a division by zero.
ChangeRight(values, change) ==
  LET n == Len(values)
      current == IF n > 0 THEN values[n] ELSE 0
      monthAgo == IF n > 0 THEN values[(IF n > 30 THEN n - 31 ELSE 0) + 1] ELSE 0
  IN  /\ change.den # 0
      /\ monthAgo > 0 => change.num * monthAgo = (current - monthAgo) * 100 * change.den
      /\ (n = 0 \/ monthAgo <= 0) => change.num = 0

C11_ChangeValue ==
  metrics # None =>
    LET tvl == props[1].tvlData
        price == props[1].priceData
    IN  /\ ChangeRight([i \in 1..Len(tvl) |-> tvl[i].tvl], metrics[1].tvlMonthlyChange)
        /\ ChangeRight([i \in 1..Len(price) |-> price[i].price],
                       metrics[1].priceMonthlyChange)

\* A card has computed a non-zero TVL change from a positive month-ago value
\* and a zero price change from a series whose month-ago value is 0 and whose
\* current value is not.
C11_Witness ==
  /\ metrics # None
  /\ metrics[1].monthAgoTvl > 0
  /\ metrics[1].tvlMonthlyChange.num # 0
  /\ Len(props[1].priceData) > 0
  /\ metrics[1].monthAgoPrice = 0
  /\ metrics[1].currentPrice > 0
  /\ metrics[1].priceMonthlyChange = [num |-> 0, den |-> 1]

\* C12 (sequential upstream calls in fixed order).  A run never has more than
\* one upstream request in flight; the chains are fetched in declaration
\* order, TVL before price; a price request goes out no earlier than 1000 ms
\* after the TVL answer, and the next chain's TVL request (or the end of the
\* loop) no earlier than 1000 ms after the price answer.
InFlight(p) ==
  calls[p] - (Cardinality(DOMAIN tvlData[p]) + Cardinality(DOMAIN priceData[p]))

FirstNames(k) == { mapping[i].name : i \in 1..k }

InOrder(p) ==
  /\ InFlight(p) \in {0, 1}
  /\ InFlight(p) = 1 <=> pc[p] \in {"tvl", "price"}
  /\ pc[p] = "tvl" =>
       /\ DOMAIN tvlData[p] = FirstNames(idx[p] - 1)
       /\ DOMAIN priceData[p] = FirstNames(idx[p] - 1)
  /\ pc[p] \in {"delay1", "price"} =>
       /\ DOMAIN tvlData[p] = FirstNames(idx[p])
       /\ DOMAIN priceData[p] = FirstNames(idx[p] - 1)
  /\ pc[p] = "delay2" =>
       /\ DOMAIN tvlData[p] = FirstNames(idx[p])
       /\ DOMAIN priceData[p] = FirstNames(idx[p])

LoopStep(p) ==
  /\ (pc[p] = "tvl" /\ pc'[p] # "tvl") =>
       /\ pc'[p] = "delay1"
       /\ calls'[p] = calls[p] /\ idx'[p] = idx[p]
       /\ deadline'[p] = now + 1000
  /\ (pc[p] = "delay1" /\ pc'[p] # "delay1") =>
       /\ pc'[p] = "price"
       /\ calls'[p] = calls[p] + 1 /\ idx'[p] = idx[p]
       /\ now' >= deadline[p]
  /\ (pc[p] = "price" /\ pc'[p] # "price") =>
       /\ pc'[p] = "delay2"
       /\ calls'[p] = calls[p] /\ idx'[p] = idx[p]
       /\ deadline'[p] = now + 1000
  /\ (pc[p] = "delay2" /\ pc'[p] # "delay2") =>
       /\ now' >= deadline[p]
       /\ IF idx[p] < Len(mapping)
          THEN pc'[p] = "tvl" /\ idx'[p] = idx[p] + 1 /\ calls'[p] = calls[p] + 1
          ELSE pc'[p] = "setData" /\ calls'[p] = calls[p]

C12_Sequential ==
  /\ [](\A p \in Procs : InOrder(p))
  /\ [][\A p \in Procs : LoopStep(p)]_vars

\* A run over the nine chains has sent the price request of the last chain,
\* its eighteenth, at least seventeen delays after it started.
C12_Witness ==
  \E p \in Procs :
    /\ Len(mapping) = 9
    /\ pc[p] = "price"
    /\ idx[p] = 9
    /\ calls[p] = 18
    /\ InFlight(p) = 1
    /\ now >= 17 * 1000

\* C13 (order of fetches, writes and response).  A run writes nothing before
\* every fetch of the run has been answered, writes blockchain_data before
\* last_updated, and responds only after both writes; the response of a Reader
\* that missed carries the Dataset and the timestamp that this run built and
\* wrote, whatever the store holds by then.
AllNames == { mapping[i].name : i \in 1..Len(mapping) }

C13_WriteOrder ==
  \A p \in Procs :
    /\ sets[p] >= 1 =>
         /\ calls[p] = 2 * Len(mapping)
         /\ DOMAIN tvlData[p] = AllNames
         /\ DOMAIN priceData[p] = AllNames
         /\ pc[p] \in {"setTs", "respond", "done"}
    /\ sets[p] = 0 => wrote[p] = NoWrites
    /\ sets[p] = 1 =>
         /\ wrote[p].blockchain_data # None
         /\ wrote[p].last_updated = None
    /\ sets[p] = 2 =>
         /\ wrote[p].blockchain_data # None
         /\ wrote[p].last_updated # None
    /\ (res[p] # None /\ calls[p] > 0) => sets[p] = 2
    /\ (res[p] = None /\ calls[p] > 0) => pc[p] # "done"
    /\ (kind[p] = "reader" /\ res[p] # None /\ calls[p] > 0) =>
         /\ res[p][1].body.data =
              [tvl_data |-> tvlData[p], price_data |-> priceData[p]]
         /\ Some(res[p][1].body.data) = wrote[p].blockchain_data
         /\ Some(res[p][1].body.lastUpdated) = newLastUpdated[p]
         /\ Some(res[p][1].body.lastUpdated) = wrote[p].last_updated

\* A Reader that missed has responded with the Dataset and timestamp of its
\* own run while the store holds those written by a run that overlapped it.
C13_Witness ==
  \E p \in Procs :
    /\ kind[p] = "reader"
    /\ pc[p] = "done"
    /\ calls[p] > 0
    /\ kvBy.blockchain_data # inv[p]
    /\ kvBy.last_updated # inv[p]
    /\ kvBy.last_updated \in overlap[p]
    /\ kv.blockchain_data # Some(res[p][1].body.data)
    /\ kv.last_updated # Some(res[p][1].body.lastUpdated)

\* C14 (wholesale replacement).  While the stored Dataset is the one a run
\* wrote, the series stored for every chain is what that run's fetchers
\* returned: empty for a chain whose fetch failed in the run, the upstream's
\* series otherwise, with nothing kept from the entry that was there before.
StoredBy(p) ==
  /\ Active(p) \/ pc[p] = "done"
  /\ sets[p] >= 1
  /\ kvBy.blockchain_data = inv[p]

C14_Wholesale ==
  \A p \in Procs :
    StoredBy(p) =>
      /\ kv.blockchain_data # None
      /\ DOMAIN kv.blockchain_data[1] = {"tvl_data", "price_data"}
      /\ kv.blockchain_data[1].tvl_data = tvlData[p]
      /\ kv.blockchain_data[1].price_data = priceData[p]
      /\ \A c \in AllNames :
           /\ kv.blockchain_data[1].tvl_data[c] =
                IF <<c, "tvl">> \in failed[p] THEN <<>> ELSE SentTvl(c)
           /\ kv.blockchain_data[1].price_data[c] =
                IF <<c, "price">> \in failed[p] THEN <<>> ELSE SentPrice(c)

\* The first run over a store that held a full entry has replaced it, and the
\* TVL series of a chain whose fetch failed in the run is stored empty.
C14_Witness ==
  \E p \in Procs :
    /\ StoredBy(p)
    /\ pc[p] = "done"
    /\ inv[p] = 1
    /\ replaced[p] = Some([iso |-> 0])
    /\ <<"Flow", "tvl">> \in failed[p]
    /\ kv.blockchain_data[1].tvl_data["Flow"] = <<>>
    /\ kv.blockchain_data[1].tvl_data["Sei"] # <<>>

\* C15 (termination).  Every Reader or authorized Refresher invocation that is
\* running eventually has responded; a run that reached the loop has, when it
\* ends, issued eighteen requests, nine answered TVL fetches and nine answered
\* price fetches, one of each per chain, and has responded, whatever the
\* outcomes of the fetches.
Invocations == 1..MaxInvocations

Responded(p, i) == inv[p] = i /\ pc[p] = "done" /\ res[p] # None

RanAll(p) ==
  (pc[p] = "done" /\ calls[p] > 0) =>
    /\ calls[p] = 18
    /\ DOMAIN tvlData[p] = ChainNames
    /\ DOMAIN priceData[p] = ChainNames
    /\ InFlight(p) = 0
    /\ res[p] # None
    /\ res[p][1].status = 200

C15_Terminates ==
  /\ [](\A p \in Procs : RanAll(p))
  /\ \A i \in Invocations :
       (\E p \in Procs : inv[p] = i /\ Active(p)) ~> (\E p \in Procs : Responded(p, i))

\* A run one of whose fetches failed has ended after eighteen requests with
\* its response sent.
C15_Witness ==
  \E p \in Procs :
    /\ pc[p] = "done"
    /\ calls[p] = 18
    /\ failed[p] # {}
    /\ res[p] # None

\* C16 as stated (a cache hit pairs values of one run).  The Dataset and the
\* lastUpdated of every cache-hit response were written by the same run
\* (invocation 0 is the run that left the initial entry).
IsHit(p) ==
  /\ kind[p] = "reader"
  /\ pc[p] = "done"
  /\ calls[p] = 0
  /\ res[p] # None

C16_HitSameRun ==
  \A p \in Procs :
    IsHit(p) => seenBy[p].blockchain_data = seenBy[p].last_updated

\* C17 (a timestamp implies a Dataset).  Whenever the store holds last_updated
\* it holds blockchain_data too, and every cache-hit response of the Reader
\* carries a Dataset that it read from the store.
C17_TsImpliesData ==
  /\ kv.last_updated # None => kv.blockchain_data # None
  /\ \A p \in Procs :
       IsHit(p) =>
         /\ cachedData[p] # None
         /\ res[p][1].body.data = cachedData[p][1]

\* The store started empty and a run has filled it; a Reader that read no
\* Dataset before the run's writes and a timestamp after them has gone on to
\* the loop instead of answering from the cache.
C17_Witness ==
  \E p, q \in Procs :
    /\ replaced[p] = None
    /\ wrote[p].last_updated # None
    /\ kv.last_updated # None
    /\ kv.blockchain_data # None
    /\ kind[q] = "reader"
    /\ cachedData[q] = None
    /\ lastUpdated[q] # None
    /\ currentTime[q] # None
    /\ currentTime[q][1] - lastUpdated[q][1].iso < 3600000
    /\ calls[q] > 0

\* C18 (the dashboard page).  A poll that completes, through the try or the
\* catch path, leaves loading and refreshing false; one that completes through
\* the catch path leaves data and lastUpdated as they were; refreshing turns
\* true only in a step of the manual refresh, which starts exactly one poll;
\* polls start on mount (one), on the interval (the k-th no earlier than
\* k * 3600000 ms after mount, while mounted) and on a manual refresh, and none
\* starts after unmount.
NewPolls == { i \in PollIds : polls[i].stage = "none" /\ polls'[i].stage # "none" }

Completes(i) ==
  /\ polls[i].stage \in {"fetch", "json"}
  /\ polls'[i].stage \in {"done", "failed"}

PageStep ==
  /\ \A i \in PollIds :
       Completes(i) => loading' = FALSE /\ refreshing' = FALSE
  /\ \A i \in PollIds :
       (Completes(i) /\ polls'[i].stage = "failed") =>
         pageData' = pageData /\ pageLastUpdated' = pageLastUpdated
  /\ (~refreshing /\ refreshing') =>
       /\ Cardinality(NewPolls) = 1
       /\ \A i \in NewPolls : polls'[i].origin = "manual"
  /\ \A i \in NewPolls :
       /\ Cardinality(NewPolls) = 1
       /\ polls'[i].stage = "fetch"
       /\ polls'[i].origin \in {"mount", "interval", "manual"}
       /\ polls'[i].origin = "manual" => mounted = "yes" /\ refreshing'
       /\ polls'[i].origin = "mount" => mounted = "no" /\ mounted' = "yes"
       /\ polls'[i].origin = "interval" =>
            mounted = "yes" /\ intervalId # None /\ now >= nextFire
  /\ (mounted = "no" /\ mounted' = "yes") =>
       \E i \in NewPolls : polls'[i].origin = "mount"
  /\ mounted = "gone" => NewPolls = {} /\ mounted' = "gone"

PageInv ==
  LET byInterval == { i \in PollIds : polls[i].origin = "interval" }
  IN  /\ mounted = "no" => Started = {}
      /\ mounted # "no" =>
           /\ Cardinality({ i \in PollIds : polls[i].origin = "mount" }) = 1
           /\ nextFire = (Cardinality(byInterval) + 1) * 3600000
           /\ now >= Cardinality(byInterval) * 3600000
      /\ mounted = "gone" => intervalId = None

====
